---- MODULE Spec2Model ----
(***************************************************************************)
(* A model of src/proxy_server.py: the forward proxy (ProxyServer), the    *)
(* replay server (Repeater), the pickle file they share and run(), which   *)
(* drives both from one thread.                                            *)
(*                                                                         *)
(* Text is modelled as a sequence of atoms.  An atom is either a single    *)
(* delimiter character (" ", ":", "/", "?", "#"), a line terminator        *)
(* ("\r\n", "\n") or a word: a non-empty run of characters that contains   *)
(* no delimiter and no terminator.  Two words are never adjacent in an     *)
(* input, so the atoms of a text are determined by its characters.         *)
(***************************************************************************)
EXTENDS Integers, Sequences, FiniteSets, TLC

\* ------------------------------------------------------------------------
\* Bounds of the model.
\* ------------------------------------------------------------------------
MaxConns == 4
MaxHeaders == 3

\* ------------------------------------------------------------------------
\* Program constants.
\* ------------------------------------------------------------------------
DefaultPort == 80
Backlog == 1
MaxPort == 65535

\* ------------------------------------------------------------------------
\* Characters and str methods (Python's str, over atoms).
\* ------------------------------------------------------------------------
SP == " "
CRLF == "\r\n"
LF == "\n"
PCName == "Proxy-Connection"

\* str.splitlines breaks after these; str.split and str.strip drop these and SP.
LineBreaks == {CRLF, LF}
WhiteSpace == {SP, CRLF, LF}

\* Words made only of urllib's scheme_chars (letters, digits, "+", "-", ".")
\* whose first character is an ASCII letter.
AlphaWords ==
  {"GET", "POST", "http", "Host", "a.com", "b.com", "example.com", "HTTP",
   "path", "Accept", "keep-alive", "close", "body", "x", "port",
   PCName, "Proxy-Connection-Extra", "proxy-connection"}
\* Words of decimal digits, and the number each denotes (str.isdigit, int()).
DigitWords == {"0", "8080", "70000"}
\* Every word made only of scheme_chars, whatever its first character.
SchemeChars == AlphaWords \cup DigitWords \cup {"1.1"}

IntOf(w) ==
  CASE w = "0" -> 0
    [] w = "8080" -> 8080
    [] w = "70000" -> 70000
    [] OTHER -> -1

\* Words that have the text "Proxy-Connection" as a prefix.
PCPrefixed == {PCName, "Proxy-Connection-Extra"}

\* str.find for a set of atoms: the first index holding one of them, 0 if none.
Find(s, set) ==
  IF \E i \in 1..Len(s) : s[i] \in set
  THEN CHOOSE i \in 1..Len(s) : s[i] \in set /\ \A j \in 1..(i - 1) : s[j] \notin set
  ELSE 0

Drop(s, k) == SubSeq(s, k + 1, Len(s))
Take(s, k) == SubSeq(s, 1, k)

RECURSIVE lstrip(_, _)
lstrip(s, set) ==
  IF s # <<>> /\ s[1] \in set THEN lstrip(Tail(s), set) ELSE s

RECURSIVE rstrip(_, _)
rstrip(s, set) ==
  IF s # <<>> /\ s[Len(s)] \in set THEN rstrip(Take(s, Len(s) - 1), set) ELSE s

\* str.strip()
strip(s) == rstrip(lstrip(s, WhiteSpace), WhiteSpace)

\* str.replace(b, "") for every b of a set.
Remove(s, set) == SelectSeq(s, LAMBDA a : a \notin set)

\* str.splitlines(True): the lines with their terminators kept.
RECURSIVE splitlines(_)
splitlines(s) ==
  IF s = <<>> THEN <<>>
  ELSE LET k == Find(s, LineBreaks)
           e == IF k = 0 THEN Len(s) ELSE k
       IN <<Take(s, e)>> \o splitlines(Drop(s, e))

\* str.split(): the maximal runs of non-whitespace.
RECURSIVE split(_)
split(s) ==
  LET t == lstrip(s, WhiteSpace)
  IN IF t = <<>> THEN <<>>
     ELSE LET k == Find(t, WhiteSpace)
              e == IF k = 0 THEN Len(t) ELSE k - 1
          IN <<Take(t, e)>> \o split(Drop(t, e))

\* "".join(lines)
RECURSIVE join(_)
join(lines) == IF lines = <<>> THEN <<>> ELSE Head(lines) \o join(Tail(lines))

\* line.startswith('Proxy-Connection')
startswith_PC(line) == line # <<>> /\ line[1] \in PCPrefixed

\* ------------------------------------------------------------------------
\* urllib.parse.urlparse, as far as parse_request uses it: the path and the
\* port of the result.  The alphabet has no "[", "]", "@" or ";", so the
\* bracket checks, the userinfo and the params split never apply.
\* ------------------------------------------------------------------------
\* url[:i] is a scheme when i > 0, url[0] is a letter and url[:i] holds only
\* scheme_chars; the scheme and its ":" are cut off.
scheme_rest(url) ==
  LET i == Find(url, {":"})
  IN IF /\ i > 1
        /\ url[1] \in AlphaWords
        /\ \A j \in 1..(i - 1) : url[j] \in SchemeChars
     THEN Drop(url, i) ELSE url

\* _splitnetloc(url, 2): the index of the last atom of the netloc.
netloc_end(url) ==
  LET d == Find(Drop(url, 2), {"/", "?", "#"})
  IN IF d = 0 THEN Len(url) ELSE d + 1

splitnetloc(url) ==
  IF Len(url) >= 2 /\ url[1] = "/" /\ url[2] = "/"
  THEN [netloc |-> SubSeq(url, 3, netloc_end(url)), url |-> Drop(url, netloc_end(url))]
  ELSE [netloc |-> <<>>, url |-> url]

\* url.split(c, 1)[0]
Before(url, c) ==
  LET k == Find(url, {c})
  IN IF k = 0 THEN url ELSE Take(url, k - 1)

url_result(n) == [netloc |-> n.netloc, path |-> Before(Before(n.url, "#"), "?")]

urlparse(url0) ==
  url_result(splitnetloc(scheme_rest(Remove(lstrip(url0, WhiteSpace), LineBreaks))))

\* ParseResult.hostname's source: _hostinfo[0], the netloc up to its first ":".
hostinfo_name(pa) ==
  LET c == Find(pa.netloc, {":"})
  IN IF c = 0 THEN pa.netloc ELSE Take(pa.netloc, c - 1)

\* ParseResult.port: _hostinfo[1] cast to an integer.  kind is "None" when the
\* netloc names no port, "int" for a port in range, "ValueError" otherwise.
port_of(pa) ==
  LET c == Find(pa.netloc, {":"})
      port == IF c = 0 THEN <<>> ELSE Drop(pa.netloc, c)
  IN IF port = <<>> THEN [kind |-> "None", val |-> 0]
     ELSE IF Len(port) = 1 /\ port[1] \in DigitWords /\ IntOf(port[1]) <= MaxPort
          THEN [kind |-> "int", val |-> IntOf(port[1])]
          ELSE [kind |-> "ValueError", val |-> 0]

\* ------------------------------------------------------------------------
\* ProxyServer.parse_request
\* ------------------------------------------------------------------------
NullRecord == [host |-> <<>>, port |-> 0, request |-> <<>>]

RemoveAt(lines, idx) == Take(lines, idx - 1) \o Drop(lines, idx)

\* for idx, line in enumerate(req_lines): if line.startswith(...): del req_lines[idx]
\* The list iterator moves on to the next index after a deletion as well.
RECURSIVE delete_proxy_connection(_, _)
delete_proxy_connection(req_lines, idx) ==
  IF idx > Len(req_lines) THEN req_lines
  ELSE IF startswith_PC(req_lines[idx])
       THEN delete_proxy_connection(RemoveAt(req_lines, idx), idx + 1)
       ELSE delete_proxy_connection(req_lines, idx + 1)

\* method + ' ' + url + ' ' + version + '\r\n'
proxy_first_line(toks) == toks[1] \o <<SP, "/", SP>> \o toks[3] \o <<CRLF>>

\* parse_fields with the request line unpacked as its first and its last
\* token, however many there are.
parse_fields_first_last(req_lines, path, pt, toks) ==
  IF pt.kind = "ValueError" \/ Len(toks) = 0
  THEN [exc |-> "ValueError", rec |-> NullRecord]
  ELSE [exc |-> "none",
        rec |-> [host |-> strip(path),
                 port |-> IF pt.kind = "None" \/ pt.val = 0 THEN DefaultPort ELSE pt.val,
                 request |-> join(delete_proxy_connection(
                               [req_lines EXCEPT ![1] =
                                  toks[1] \o <<SP, "/", SP>> \o toks[Len(toks)] \o <<CRLF>>],
                               1))]]

\* Lines 83 to 95, given the lines, the parsed second line's path and port
\* and the tokens of the first line.
parse_fields(req_lines, path, pt, toks) ==
  IF pt.kind = "ValueError" \/ Len(toks) # 3
  THEN [exc |-> "ValueError", rec |-> NullRecord]
  ELSE [exc |-> "none",
        rec |-> [host |-> strip(path),
                 port |-> IF pt.kind = "None" \/ pt.val = 0 THEN DefaultPort ELSE pt.val,
                 request |-> join(delete_proxy_connection(
                               [req_lines EXCEPT ![1] = proxy_first_line(toks)], 1))]]

parse_address(req_lines, proxy_address) ==
  parse_fields(req_lines, proxy_address.path, port_of(proxy_address), split(req_lines[1]))

\* parse_lines that takes a missing second line to be an empty one.
parse_lines_padded(req_lines) ==
  IF Len(req_lines) < 1
  THEN [exc |-> "IndexError", rec |-> NullRecord]
  ELSE IF Len(req_lines) < 2
       THEN parse_address(req_lines, urlparse(<<>>))
       ELSE parse_address(req_lines, urlparse(req_lines[2]))

parse_lines(req_lines) ==
  IF Len(req_lines) < 2
  THEN [exc |-> "IndexError", rec |-> NullRecord]
  ELSE parse_address(req_lines, urlparse(req_lines[2]))

parse_request(request) == parse_lines(splitlines(request))

\* ------------------------------------------------------------------------
\* pickle: the stream pickle.dump writes for the dict of serve_forever, and
\* the stack machine pickle.load runs over a stream.  One element of the
\* stream is one opcode with its argument.
\* ------------------------------------------------------------------------
Op(op, n, s) == [op |-> op, n |-> n, s |-> s]
Unicode(s) == Op("SHORT_BINUNICODE", Len(s), s)

\* dumps with the request written as a text-mode file would write it: every
\* "\r\n" becomes "\n".
dumps_text_mode(dump) ==
  << Op("PROTO", 4, <<>>), Op("EMPTY_DICT", 0, <<>>), Op("MARK", 0, <<>>),
     Unicode(<<"host">>), Unicode(dump.host),
     Unicode(<<"port">>), Op("BININT", dump.port, <<>>),
     Unicode(<<"request">>),
     Unicode([i \in 1..Len(dump.request) |->
                IF dump.request[i] = CRLF THEN LF ELSE dump.request[i]]),
     Op("SETITEMS", 0, <<>>), Op("STOP", 0, <<>>) >>

dumps(dump) ==
  << Op("PROTO", 4, <<>>), Op("EMPTY_DICT", 0, <<>>), Op("MARK", 0, <<>>),
     Unicode(<<"host">>), Unicode(dump.host),
     Unicode(<<"port">>), Op("BININT", dump.port, <<>>),
     Unicode(<<"request">>), Unicode(dump.request),
     Op("SETITEMS", 0, <<>>), Op("STOP", 0, <<>>) >>

Item(t, n, s) == [t |-> t, n |-> n, s |-> s]

\* The index of the topmost mark of the stack, 0 if there is none.
TopMark(stack) ==
  IF \E i \in 1..Len(stack) : stack[i].t = "mark"
  THEN CHOOSE i \in 1..Len(stack) :
         stack[i].t = "mark" /\ \A j \in (i + 1)..Len(stack) : stack[j].t # "mark"
  ELSE 0

\* pickle.load: returns at STOP with the dict built so far (a sequence of
\* key, value, key, value, ...); running out of input before STOP, or an
\* opcode the stack does not fit, raises.
RECURSIVE unpickle(_, _, _)
unpickle(bytes, stack, items) ==
  IF bytes = <<>> THEN [exc |-> "EOFError", items |-> <<>>]
  ELSE
    LET o == Head(bytes)
        m == TopMark(stack)
    IN CASE o.op = "PROTO" -> unpickle(Tail(bytes), stack, items)
         [] o.op = "EMPTY_DICT" ->
              unpickle(Tail(bytes), Append(stack, Item("dict", 0, <<>>)), items)
         [] o.op = "MARK" ->
              unpickle(Tail(bytes), Append(stack, Item("mark", 0, <<>>)), items)
         [] o.op = "SHORT_BINUNICODE" ->
              unpickle(Tail(bytes), Append(stack, Item("str", 0, o.s)), items)
         [] o.op = "BININT" ->
              unpickle(Tail(bytes), Append(stack, Item("int", o.n, <<>>)), items)
         [] o.op = "SETITEMS" ->
              IF m < 2 \/ stack[m - 1].t # "dict"
              THEN [exc |-> "UnpicklingError", items |-> <<>>]
              ELSE unpickle(Tail(bytes), Take(stack, m - 1),
                            items \o SubSeq(stack, m + 1, Len(stack)))
         [] o.op = "STOP" ->
              IF stack = <<>> \/ stack[Len(stack)].t # "dict"
              THEN [exc |-> "UnpicklingError", items |-> <<>>]
              ELSE [exc |-> "none", items |-> items]
         [] OTHER -> [exc |-> "UnpicklingError", items |-> <<>>]

\* d[key] on the loaded dict: the value stored last under the key.
HasKey(items, key) ==
  \E i \in 1..Len(items) : i % 2 = 1 /\ i < Len(items) /\ items[i] = Item("str", 0, <<key>>)
Lookup(items, key) ==
  LET i == CHOOSE i \in 1..Len(items) :
             /\ i % 2 = 1 /\ i < Len(items) /\ items[i] = Item("str", 0, <<key>>)
             /\ \A j \in (i + 1)..Len(items) :
                  ~(j % 2 = 1 /\ j < Len(items) /\ items[j] = Item("str", 0, <<key>>))
  IN items[i + 1]

\* ------------------------------------------------------------------------
\* The file http_proxy_request.pickle.
\* ------------------------------------------------------------------------
NoFile == [exists |-> FALSE, bytes |-> <<>>]
FileOf(bytes) == [exists |-> TRUE, bytes |-> bytes]

\* save_pickle with the file opened 'ab': a write adds to what the file holds.
save_pickle_append(old, dump, outcome, k) ==
  CASE outcome = "ok" -> FileOf(old.bytes \o dumps(dump))
    [] outcome = "open" -> old
    [] outcome = "dump" -> FileOf(old.bytes \o Take(dumps(dump), k))

\* ProxyServer.save_pickle: open(picklename, 'wb') truncates the file, then
\* pickle.dump writes the stream.  outcome "ok": the whole stream is written;
\* "open": open() raises and the file is as it was; "dump": the write raises
\* after k opcodes reached the file.
save_pickle(old, dump, outcome, k) ==
  CASE outcome = "ok" -> FileOf(dumps(dump))
    [] outcome = "open" -> old
    [] outcome = "dump" -> FileOf(Take(dumps(dump), k))

\* How much of a stream reaches the file when the write fails part way:
\* nothing, half of it, or all but its last opcode.
TornLengths(stream) == {0, Len(stream) \div 2, Len(stream) - 1}

\* Repeater.load_pickle followed by line 129: the three entries of the dict,
\* the port passed through int().
load_items(u) ==
  IF u.exc # "none" THEN [exc |-> u.exc, rec |-> NullRecord]
  ELSE IF ~(HasKey(u.items, "host") /\ HasKey(u.items, "port")
            /\ HasKey(u.items, "request"))
       THEN [exc |-> "KeyError", rec |-> NullRecord]
       ELSE IF Lookup(u.items, "port").t # "int"
            THEN [exc |-> "ValueError", rec |-> NullRecord]
            ELSE [exc |-> "none",
                  rec |-> [host |-> Lookup(u.items, "host").s,
                           port |-> Lookup(u.items, "port").n,
                           request |-> Lookup(u.items, "request").s]]

\* load_pickle with the file opened 'ab+': a missing file is created empty,
\* and pickle.load runs out of input.
load_pickle_creating(f) ==
  IF ~f.exists THEN [exc |-> "EOFError", rec |-> NullRecord]
  ELSE load_items(unpickle(f.bytes, <<>>, <<>>))

load_pickle(f) ==
  IF ~f.exists THEN [exc |-> "FileNotFoundError", rec |-> NullRecord]
  ELSE load_items(unpickle(f.bytes, <<>>, <<>>))

\* ------------------------------------------------------------------------
\* State.
\* ------------------------------------------------------------------------
VARIABLES
  pc,               \* where the thread of run() stands
  loops,            \* each serve_forever: "idle", "running", or how it ended
  server_socket,    \* the two listening sockets: "unbound", "listening", "closed"
  backlog,          \* connections waiting in each listening socket's queue
  conns,            \* every client socket accept() has returned, in order
  outs,             \* every outbound socket created, in order
  file,             \* the content of http_proxy_request.pickle
  request,          \* ProxyServer.serve_forever: request
  pickle_request,   \* ProxyServer.serve_forever: h, p, r
  current_request,  \* Repeater.serve_forever: h, p, req
  response,         \* serve_forever: response
  failure,          \* history: the stage and connection of the last failure
  saved             \* history: the dicts save_pickle has written in full, in order

vars == << pc, loops, server_socket, backlog, conns, outs, file, request,
           pickle_request, current_request, response, failure, saved >>

Listeners == {"proxy", "repeater"}

ProxySteps == {"p_accept", "p_recv", "p_parse", "p_save", "p_connect", "p_send",
               "p_recv_response", "p_respond"}
RepeaterSteps == {"r_accept", "r_load", "r_connect", "r_send",
                  "r_recv_response", "r_respond"}

NoFailure == [stage |-> "none", exc |-> "none", conn |-> 0]

\* ------------------------------------------------------------------------
\* Inputs.
\* ------------------------------------------------------------------------
Line(atoms) == atoms \o <<CRLF>>

ReqA ==
  Line(<<"GET", SP, "http", ":", "/", "/", "a.com", "/", SP, "HTTP", "/", "1.1">>)
  \o Line(<<"Host", ":", SP, "a.com">>) \o Line(<<>>)
ReqB ==
  Line(<<"POST", SP, "http", ":", "/", "/", "b.com", "/", "path", SP, "HTTP", "/", "1.1">>)
  \o Line(<<"Host", ":", SP, "b.com">>)
  \o Line(<<PCName, ":", SP, "keep-alive">>) \o Line(<<>>) \o Line(<<"body">>) \o <<"x">>
ReqPort ==
  Line(<<"GET", SP, "/", SP, "HTTP", "/", "1.1">>)
  \o Line(<<"http", ":", "/", "/", "example.com", ":", "8080">>) \o Line(<<>>)
ReqShort == Line(<<"GET", SP, "/">>) \o Line(<<"Host", ":", SP, "a.com">>) \o Line(<<>>)

ReqLong ==
  Line(<<"GET", SP, "/", SP, "HTTP", "/", "1.1", SP, "x">>)
  \o Line(<<"Host", ":", SP, "a.com">>) \o Line(<<>>)
ReqOneLine == Line(<<"GET", SP, "/", SP, "HTTP", "/", "1.1">>)

\* What recv(1024).decode() can return on the proxy's client socket.
Requests == {ReqA, ReqB, ReqPort, ReqShort, ReqLong, ReqOneLine, <<>>}

\* What recv(1024).decode() can return on an outbound socket.
Responses == {<<"HTTP", "/", "1.1", SP, "200", CRLF, CRLF, "body">>, <<>>}

\* A capture an earlier run of the program left in the file.
OldCapture ==
  [host |-> <<"example.com">>, port |-> DefaultPort,
   request |-> Line(<<"GET", SP, "/", SP, "HTTP", "/", "1.1">>)
               \o Line(<<"Host", ":", SP, "example.com">>) \o Line(<<>>)]

\* ------------------------------------------------------------------------
\* Sockets.
\* ------------------------------------------------------------------------
NewConn(l) == [lst |-> l, open |-> TRUE, sends |-> 0, sent |-> <<>>]
NewOut(c, host, port) ==
  [conn |-> c, host |-> host, port |-> port, open |-> TRUE, connected |-> FALSE,
   sends |-> 0, sent |-> <<>>, reads |-> 0, recvd |-> <<>>]

CloseAll(socks) == [i \in 1..Len(socks) |-> [socks[i] EXCEPT !.open = FALSE]]
CloseLast(socks) == [socks EXCEPT ![Len(socks)].open = FALSE]

\* The process ends: the operating system closes every socket it holds.
ProcessEnds(how, outsNow) ==
  /\ pc' = how
  /\ loops' = [l \in Listeners |-> IF loops[l] = "running" THEN how ELSE loops[l]]
  /\ server_socket' = [l \in Listeners |-> "closed"]
  /\ backlog' = [l \in Listeners |-> 0]
  /\ conns' = CloseAll(conns)
  /\ outs' = CloseAll(outsNow)

\* An exception no handler of the program catches: run() catches only
\* KeyboardInterrupt, so the interpreter prints the traceback and exits.
Uncaught(stage, exc, outsNow) ==
  /\ ProcessEnds("crashed", outsNow)
  /\ failure' = [stage |-> stage, exc |-> exc, conn |-> Len(conns)]

\* ------------------------------------------------------------------------
\* run(), ProxyServer.__init__, Repeater.__init__
\* ------------------------------------------------------------------------
Init ==
  /\ pc = "start"
  /\ loops = [l \in Listeners |-> "idle"]
  /\ server_socket = [l \in Listeners |-> "unbound"]
  /\ backlog = [l \in Listeners |-> 0]
  /\ conns = <<>>
  /\ outs = <<>>
  /\ file \in {NoFile, FileOf(dumps(OldCapture))}
  /\ request = <<>>
  /\ pickle_request = NullRecord
  /\ current_request = NullRecord
  /\ response = <<>>
  /\ failure = NoFailure
  /\ saved = <<>>

\* Both constructors bind and listen before either loop starts; a bind that
\* fails raises OSError out of run().
Start ==
  /\ pc = "start"
  /\ \/ /\ pc' = "p_accept"
        /\ loops' = [loops EXCEPT !["proxy"] = "running"]
        /\ server_socket' = [l \in Listeners |-> "listening"]
        /\ UNCHANGED << backlog, conns, outs, failure >>
     \/ Uncaught("bind", "OSError", outs)
  /\ UNCHANGED << file, request, pickle_request, current_request, response, saved >>

\* A client completes a connection to one of the listening sockets.
ClientConnects(l) ==
  /\ server_socket[l] = "listening"
  /\ backlog[l] < Backlog
  /\ Len(conns) + backlog["proxy"] + backlog["repeater"] < MaxConns
  /\ backlog' = [backlog EXCEPT ![l] = @ + 1]
  /\ UNCHANGED << pc, loops, server_socket, conns, outs, file, request, pickle_request,
                  current_request, response, failure, saved >>

\* KeyboardInterrupt in either loop: run() catches it and returns.
Interrupt ==
  /\ pc \in ProxySteps \cup RepeaterSteps
  /\ ProcessEnds("interrupted", outs)
  /\ UNCHANGED << file, request, pickle_request, current_request, response,
                  failure, saved >>

\* ------------------------------------------------------------------------
\* The forward both loops make: socket(), connect, sendall, recv, close,
\* then sendall and close on the client socket.
\* ------------------------------------------------------------------------
Connect(here, next, rec) ==
  /\ pc = here
  /\ LET sock == NewOut(Len(conns), rec.host, rec.port)
     IN \/ /\ outs' = Append(outs, [sock EXCEPT !.connected = TRUE])
           /\ pc' = next
           /\ UNCHANGED << loops, server_socket, backlog, conns, failure >>
        \/ Uncaught("connect", "OSError", Append(outs, sock))
  /\ UNCHANGED << file, request, pickle_request, current_request, response, saved >>

\* SendRequest that sends the request a second time on the same socket.
SendRequest_retry(here, next, rec) ==
  /\ pc = here
  /\ \/ /\ outs' = [outs EXCEPT ![Len(outs)].sends = @ + 2,
                                ![Len(outs)].sent = @ \o rec.request \o rec.request]
        /\ pc' = next
        /\ UNCHANGED << loops, server_socket, backlog, conns, failure >>
     \/ Uncaught("send", "OSError", [outs EXCEPT ![Len(outs)].sends = @ + 1])
  /\ UNCHANGED << file, request, pickle_request, current_request, response, saved >>

SendRequest(here, next, rec) ==
  /\ pc = here
  /\ \/ /\ outs' = [outs EXCEPT ![Len(outs)].sends = @ + 1,
                                ![Len(outs)].sent = @ \o rec.request]
        /\ pc' = next
        /\ UNCHANGED << loops, server_socket, backlog, conns, failure >>
     \/ Uncaught("send", "OSError", [outs EXCEPT ![Len(outs)].sends = @ + 1])
  /\ UNCHANGED << file, request, pickle_request, current_request, response, saved >>

\* RecvResponse without the close() that follows recv().
RecvResponse_no_close(here, next) ==
  /\ pc = here
  /\ LET read == [outs EXCEPT ![Len(outs)].reads = @ + 1]
     IN \/ /\ \E resp \in Responses :
                /\ response' = resp
                /\ outs' = [read EXCEPT ![Len(outs)].recvd = resp]
           /\ pc' = next
           /\ UNCHANGED << loops, server_socket, backlog, conns, failure >>
        \/ /\ Uncaught("receive", "OSError", read)
           /\ UNCHANGED response
  /\ UNCHANGED << file, request, pickle_request, current_request, saved >>

RecvResponse(here, next) ==
  /\ pc = here
  /\ LET read == [outs EXCEPT ![Len(outs)].reads = @ + 1]
     IN \/ /\ \E resp \in Responses :
                /\ response' = resp
                /\ outs' = CloseLast([read EXCEPT ![Len(outs)].recvd = resp])
           /\ pc' = next
           /\ UNCHANGED << loops, server_socket, backlog, conns, failure >>
        \/ /\ Uncaught("receive", "OSError", read)
           /\ UNCHANGED response
  /\ UNCHANGED << file, request, pickle_request, current_request, saved >>

\* Respond without client_connection.close().
Respond_no_close(here, next) ==
  /\ pc = here
  /\ \/ /\ conns' = [conns EXCEPT ![Len(conns)].sends = @ + 1,
                                  ![Len(conns)].sent = @ \o response]
        /\ pc' = next
        /\ UNCHANGED << loops, server_socket, backlog, outs, failure >>
     \/ Uncaught("respond", "OSError", outs)
  /\ UNCHANGED << file, request, pickle_request, current_request, response, saved >>

Respond(here, next) ==
  /\ pc = here
  /\ \/ /\ conns' = [conns EXCEPT ![Len(conns)].sends = @ + 1,
                                  ![Len(conns)].sent = @ \o response,
                                  ![Len(conns)].open = FALSE]
        /\ pc' = next
        /\ UNCHANGED << loops, server_socket, backlog, outs, failure >>
     \/ Uncaught("respond", "OSError", outs)
  /\ UNCHANGED << file, request, pickle_request, current_request, response, saved >>

\* ------------------------------------------------------------------------
\* ProxyServer.serve_forever
\* ------------------------------------------------------------------------
Accept(l, here, next) ==
  /\ pc = here
  /\ backlog[l] > 0
  /\ backlog' = [backlog EXCEPT ![l] = @ - 1]
  /\ conns' = Append(conns, NewConn(l))
  /\ pc' = next
  /\ UNCHANGED << loops, server_socket, outs, file, request, pickle_request,
                  current_request, response, failure, saved >>

ProxyAccept == Accept("proxy", "p_accept", "p_recv")

ProxyRecv ==
  /\ pc = "p_recv"
  /\ \/ /\ \E req \in Requests : request' = req
        /\ pc' = "p_parse"
        /\ UNCHANGED << loops, server_socket, backlog, conns, outs, failure >>
     \/ /\ Uncaught("read", "OSError", outs)
        /\ UNCHANGED request
  /\ UNCHANGED << file, pickle_request, current_request, response, saved >>

\* h, p, r = self.parse_request(request), t being what the call returns or raises.
ProxyParsed(t) ==
  /\ \/ /\ t.exc = "none"
        /\ pickle_request' = t.rec
        /\ pc' = "p_save"
        /\ UNCHANGED << loops, server_socket, backlog, conns, outs, failure >>
     \/ /\ t.exc # "none"
        /\ Uncaught("parse", t.exc, outs)
        /\ UNCHANGED pickle_request
  /\ UNCHANGED << file, request, current_request, response, saved >>

ProxyParse ==
  /\ pc = "p_parse"
  /\ ProxyParsed(parse_request(request))

\* try: save_pickle(...) except Exception: return.  The return leaves
\* serve_forever with client_connection never closed: the socket is closed
\* when the runtime finalizes the object, at once (finalized) or not before
\* the process ends.  run() then calls repeater.serve_forever().
\* ProxySave for a loop that goes on to the forward without having written
\* the capture.
ProxySave_not_written ==
  /\ pc = "p_save"
  /\ \/ /\ saved' = Append(saved, pickle_request)
        /\ pc' = "p_connect"
        /\ UNCHANGED << file, loops, conns, failure >>
     \/ /\ \/ file' = save_pickle(file, pickle_request, "open", 0)
           \/ \E k \in TornLengths(dumps(pickle_request)) :
                file' = save_pickle(file, pickle_request, "dump", k)
        /\ \E finalized \in BOOLEAN :
             conns' = IF finalized THEN CloseLast(conns) ELSE conns
        /\ failure' = [stage |-> "persist", exc |-> "OSError", conn |-> Len(conns)]
        /\ pc' = "r_accept"
        /\ loops' = [proxy |-> "returned", repeater |-> "running"]
        /\ UNCHANGED saved
  /\ UNCHANGED << server_socket, backlog, outs, request, pickle_request,
                  current_request, response >>

ProxySave ==
  /\ pc = "p_save"
  /\ \/ /\ file' = save_pickle(file, pickle_request, "ok", 0)
        /\ saved' = Append(saved, pickle_request)
        /\ pc' = "p_connect"
        /\ UNCHANGED << loops, conns, failure >>
     \/ /\ \/ file' = save_pickle(file, pickle_request, "open", 0)
           \/ \E k \in TornLengths(dumps(pickle_request)) :
                file' = save_pickle(file, pickle_request, "dump", k)
        /\ \E finalized \in BOOLEAN :
             conns' = IF finalized THEN CloseLast(conns) ELSE conns
        /\ failure' = [stage |-> "persist", exc |-> "OSError", conn |-> Len(conns)]
        /\ pc' = "r_accept"
        /\ loops' = [proxy |-> "returned", repeater |-> "running"]
        /\ UNCHANGED saved
  /\ UNCHANGED << server_socket, backlog, outs, request, pickle_request,
                  current_request, response >>

ProxyConnect == Connect("p_connect", "p_send", pickle_request)
ProxySend == SendRequest("p_send", "p_recv_response", pickle_request)
ProxyRecvResponse == RecvResponse("p_recv_response", "p_respond")
ProxyRespond == Respond("p_respond", "p_accept")

\* ------------------------------------------------------------------------
\* Repeater.serve_forever
\* ------------------------------------------------------------------------
RepeaterAccept == Accept("repeater", "r_accept", "r_load")

\* try: load_pickle(...) except Exception: return.  The return ends run(),
\* and with it the process.
\* RepeaterLoaded for a repeater that removes the capture once it has loaded it.
RepeaterLoaded_consuming(t) ==
  /\ \/ /\ t.exc = "none"
        /\ current_request' = t.rec
        /\ pc' = "r_connect"
        /\ file' = NoFile
        /\ UNCHANGED << loops, server_socket, backlog, conns, outs, failure >>
     \/ /\ t.exc # "none"
        /\ ProcessEnds("returned", outs)
        /\ failure' = [stage |-> "load", exc |-> t.exc, conn |-> Len(conns)]
        /\ UNCHANGED << current_request, file >>
  /\ UNCHANGED << request, pickle_request, response, saved >>

RepeaterLoaded(t) ==
  /\ \/ /\ t.exc = "none"
        /\ current_request' = t.rec
        /\ pc' = "r_connect"
        /\ UNCHANGED << loops, server_socket, backlog, conns, outs, failure >>
     \/ /\ t.exc # "none"
        /\ ProcessEnds("returned", outs)
        /\ failure' = [stage |-> "load", exc |-> t.exc, conn |-> Len(conns)]
        /\ UNCHANGED current_request
  /\ UNCHANGED << file, request, pickle_request, response, saved >>

RepeaterLoad ==
  /\ pc = "r_load"
  /\ RepeaterLoaded(load_pickle(file))

RepeaterConnect == Connect("r_connect", "r_send", current_request)
RepeaterSend == SendRequest("r_send", "r_recv_response", current_request)
RepeaterRecvResponse == RecvResponse("r_recv_response", "r_respond")
RepeaterRespond == Respond("r_respond", "r_accept")

\* ------------------------------------------------------------------------
\* Specifications.
\* ------------------------------------------------------------------------
Next ==
  \/ Start
  \/ \E l \in Listeners : ClientConnects(l)
  \/ Interrupt
  \/ ProxyAccept
  \/ ProxyRecv
  \/ ProxyParse
  \/ ProxySave
  \/ ProxyConnect
  \/ ProxySend
  \/ ProxyRecvResponse
  \/ ProxyRespond
  \/ RepeaterAccept
  \/ RepeaterLoad
  \/ RepeaterConnect
  \/ RepeaterSend
  \/ RepeaterRecvResponse
  \/ RepeaterRespond

Spec == Init /\ [][Next]_vars

\* ------------------------------------------------------------------------
\* parse_request over a larger set of requests: the proxy has accepted a
\* connection and read a request, and takes the step that translates it.
\* ------------------------------------------------------------------------
RequestLines ==
  { Line(<<"GET", SP, "http", ":", "/", "/", "a.com", "/", SP, "HTTP", "/", "1.1">>),
    Line(<<"GET", SP, "/">>),
    Line(<<"GET", SP, "/", SP, "HTTP", "/", "1.1", SP, "x">>),
    Line(<<PCName, ":", SP, "/", SP, "HTTP", "/", "1.1">>),
    Line(<<>>) }

SecondLines ==
  { Line(<<"Host", ":", SP, "a.com">>),
    Line(<<"Host", ":", SP, "a.com", ":", "8080">>),
    Line(<<"http", ":", "/", "/", "example.com", "/", "path">>),
    Line(<<"http", ":", "/", "/", "example.com", ":", "8080", "/">>),
    Line(<<"http", ":", "/", "/", "example.com", ":", "0", "/">>),
    Line(<<"http", ":", "/", "/", "example.com", ":", "70000", "/">>),
    Line(<<"http", ":", "/", "/", "example.com", ":", "port", "/">>),
    Line(<<"http", ":", "/", "/", "example.com">>),
    Line(<<"a.com">>),
    Line(<<PCName, ":", SP, "keep-alive">>),
    Line(<<>>) }

HeaderLines ==
  { Line(<<PCName, ":", SP, "keep-alive">>),
    Line(<<"Proxy-Connection-Extra", ":", SP, "x">>),
    Line(<<"proxy-connection", ":", SP, "close">>),
    Line(<<"Accept", ":", SP, "x">>),
    Line(<<>>),
    <<"body">> }

SeqsUpTo(set, n) == UNION { [1..k -> set] : k \in 0..n }

ParseInputs ==
  {<<>>} \cup RequestLines
  \cup { f \o sl \o join(hs) :
           f \in RequestLines, sl \in SecondLines, hs \in SeqsUpTo(HeaderLines, MaxHeaders) }

ParseInit ==
  /\ pc = "p_parse"
  /\ loops = [proxy |-> "running", repeater |-> "idle"]
  /\ server_socket = [l \in Listeners |-> "listening"]
  /\ backlog = [l \in Listeners |-> 0]
  /\ conns = <<NewConn("proxy")>>
  /\ outs = <<>>
  /\ file = NoFile
  /\ request \in ParseInputs
  /\ pickle_request = NullRecord
  /\ current_request = NullRecord
  /\ response = <<>>
  /\ failure = NoFailure
  /\ saved = <<>>

ParseNext == ProxyParse

SpecParse == ParseInit /\ [][ParseNext]_vars

\* ------------------------------------------------------------------------
\* Properties.
\* ------------------------------------------------------------------------
Last(s) == s[Len(s)]
RepeaterConns == { i \in 1..Len(conns) : conns[i].lst = "repeater" }
RepeaterOuts == { i \in 1..Len(outs) : outs[i].conn \in RepeaterConns }

\* C1: once the process has started both accept loops are active at the same
\* time: while the proxy loop runs the repeater loop runs too, and no repeater
\* connection has to wait for the proxy loop to end before it is accepted.
C1_ListenersRunConcurrently ==
  /\ loops["proxy"] = "running" => loops["repeater"] = "running"
  /\ RepeaterConns # {} => loops["proxy"] = "running"

\* C2: as long as no write of the store has failed, the store holds exactly
\* the capture of the last request the proxy persisted, and whatever a
\* repeater connection forwards afterwards goes to that capture's host and
\* port and is that capture's rewritten request.
C2_LastWriterWins ==
  /\ (saved # <<>> /\ loops["proxy"] # "returned") => file = FileOf(dumps(Last(saved)))
  /\ \A i \in RepeaterOuts :
       saved # <<>> =>
         /\ outs[i].host = Last(saved).host
         /\ outs[i].port = Last(saved).port
         /\ outs[i].sent \in {<<>>, Last(saved).request}

\* The repeater has sent B's request to B's host after the proxy persisted A
\* and then a different B.
C2_Witness ==
  /\ Len(saved) >= 2
  /\ saved[Len(saved) - 1].host # Last(saved).host
  /\ saved[Len(saved) - 1].request # Last(saved).request
  /\ \E i \in RepeaterOuts :
       /\ outs[i].connected
       /\ outs[i].host = Last(saved).host
       /\ outs[i].sent = Last(saved).request

\* C3: a failure at a stage of a connection leaves that connection closed with
\* no bytes sent to the client: once the thread has moved on from a failed
\* connection, the connection is not open.
C3_FailedConnectionClosed ==
  (failure.conn > 0 /\ pc \in ProxySteps \cup RepeaterSteps) =>
    /\ ~conns[failure.conn].open
    /\ conns[failure.conn].sent = <<>>

\* C4: a failure on one connection never ends a listener: after it the
\* listener that accepted the connection is still running its accept loop.
C4_FailureKeepsListener ==
  failure.conn > 0 => loops[conns[failure.conn].lst] \in {"running", "interrupted"}

NotPC(line) == ~startswith_PC(line)
IsSuffix(t, s) == Len(t) <= Len(s) /\ t = Drop(s, Len(s) - Len(t))

\* C6: the translated request has no line that starts with Proxy-Connection,
\* and the lines after the request line that do not start with it are those
\* of the request, unmodified and in their order.
C6_ProxyConnectionRemoved ==
  pc = "p_save" =>
    /\ \A i \in 1..Len(splitlines(pickle_request.request)) :
         NotPC(splitlines(pickle_request.request)[i])
    /\ IsSuffix(SelectSeq(Tail(splitlines(request)), NotPC),
                splitlines(pickle_request.request))
    /\ Len(splitlines(pickle_request.request))
         <= Len(SelectSeq(Tail(splitlines(request)), NotPC)) + 1

FirstLine(req) == IF splitlines(req) = <<>> THEN <<>> ELSE splitlines(req)[1]
ShortRequestLine(req) == Len(split(FirstLine(req))) < 3

\* C7: a request whose request line has fewer than three tokens fails
\* translation; the step leaves the store as it was, opens no outbound
\* connection and leaves the client connection closed with no bytes sent.
C7_ShortRequestLineFails ==
  [][(ProxyParse /\ ShortRequestLine(request)) =>
       /\ pc' = "crashed"
       /\ failure'.stage = "parse"
       /\ file' = file
       /\ Len(outs') = Len(outs)
       /\ ~Last(conns').open
       /\ Last(conns').sent = <<>>]_vars

\* A request line of two tokens has failed translation on a connection that
\* followed a persisted capture.
C7_Witness ==
  /\ pc = "crashed"
  /\ failure = [stage |-> "parse", exc |-> "ValueError", conn |-> Len(conns)]
  /\ request = ReqShort
  /\ saved # <<>>
  /\ file = FileOf(dumps(Last(saved)))
  /\ Len(outs) = Len(conns) - 1

SecondLine(req) == splitlines(req)[2]

\* C8: the destination is the one named by the second line parsed as a URI:
\* the host is the URI's host and the port is the URI's port, 80 without one.
C8_DestinationFromUri ==
  (pc = "p_save" /\ urlparse(SecondLine(request)).netloc # <<>>) =>
    /\ pickle_request.host = hostinfo_name(urlparse(SecondLine(request)))
    /\ pickle_request.port =
         IF port_of(urlparse(SecondLine(request))).kind = "int"
         THEN port_of(urlparse(SecondLine(request))).val
         ELSE DefaultPort

\* C9: every record the proxy persists has a non-empty host and a port in
\* 1..65535.
C9_PersistedHostAndPort ==
  \A i \in 1..Len(saved) :
    /\ saved[i].host # <<>>
    /\ saved[i].port \in 1..MaxPort

\* C10: a capture written to the store and read back with no write in between
\* is the same (host, port, request), line terminators included.
C10_StoreRoundTrip ==
  /\ pc = "p_save" =>
       load_pickle(save_pickle(file, pickle_request, "ok", 0))
         = [exc |-> "none", rec |-> pickle_request]
  /\ (pc \in RepeaterSteps \ {"r_accept", "r_load"} /\ saved # <<>>) =>
       current_request = Last(saved)

\* The repeater has read back a capture written in this run whose request
\* holds CRLF terminators and a body.
C10_Witness ==
  /\ pc = "r_connect"
  /\ saved # <<>>
  /\ current_request = Last(saved)
  /\ current_request.request = parse_request(ReqB).rec.request
  /\ \E i \in 1..Len(current_request.request) : current_request.request[i] = CRLF

\* C11: a read of a store to which no capture has ever been written (the file
\* does not exist) fails with a not-found error and returns no record; the
\* repeater connection serviced then opens no outbound connection and has
\* nothing sent to it.
C11_EmptyStoreNotFound ==
  [][(RepeaterLoad /\ ~file.exists) =>
       /\ load_pickle(file) = [exc |-> "FileNotFoundError", rec |-> NullRecord]
       /\ failure' = [stage |-> "load", exc |-> "FileNotFoundError", conn |-> Len(conns)]
       /\ current_request' = current_request
       /\ pc' \notin RepeaterSteps
       /\ Len(outs') = Len(outs)
       /\ \A i \in 1..Len(outs') : outs'[i].conn # Len(conns)
       /\ Last(conns').sends = 0
       /\ Last(conns').sent = <<>>
       /\ file' = file]_vars

\* A repeater connection has been serviced while the file did not exist: the
\* load failed with the not-found error, no outbound socket was opened for
\* the connection and nothing was sent to it.
C11_Witness ==
  /\ ~file.exists
  /\ failure.stage = "load"
  /\ failure.exc = "FileNotFoundError"
  /\ conns[failure.conn].lst = "repeater"
  /\ conns[failure.conn].sent = <<>>
  /\ RepeaterOuts = {}

\* The steps between socket() and close() of a forward.
ForwardSteps == {"p_send", "p_recv_response", "r_send", "r_recv_response"}

\* C12: no outbound socket stays open after its forward has ended, whether
\* the forward succeeded or failed at connect, send or receive, in the proxy
\* and in the repeater: an outbound socket is open only while the thread is
\* in the forward it was opened for.
C12_OutboundClosed ==
  \A i \in 1..Len(outs) :
    outs[i].open =>
      /\ i = Len(outs)
      /\ outs[i].conn = Len(conns)
      /\ pc \in ForwardSteps

\* The proxy has completed a forward and a later forward of the repeater has
\* failed at receive: both outbound sockets are closed.
C12_Witness ==
  /\ Len(outs) >= 2
  /\ \E i \in 1..Len(outs) :
       /\ conns[outs[i].conn].lst = "proxy"
       /\ outs[i].reads = 1
       /\ conns[outs[i].conn].sends = 1
       /\ ~outs[i].open
  /\ failure.stage = "receive"
  /\ conns[failure.conn].lst = "repeater"
  /\ Last(outs).conn = failure.conn
  /\ Last(outs).connected
  /\ ~Last(outs).open

ConnsOf(l) == { i \in 1..Len(conns) : conns[i].lst = l }
OpenConnsOf(l) == { i \in ConnsOf(l) : conns[i].open }

\* C13: within one listener at most one accepted client connection is open
\* at any time, and the listener accepts only when no connection it accepted
\* before is open.
C13_OneConnectionAtATime ==
  [][\A l \in Listeners :
       /\ Cardinality(OpenConnsOf(l)) <= 1
       /\ (Len(conns') > Len(conns) /\ Last(conns').lst = l) => OpenConnsOf(l) = {}]_vars

\* The proxy listener holds its second connection open after its first was
\* serviced to the end and closed.
C13_Witness ==
  /\ Len(conns) >= 2
  /\ conns[1].lst = "proxy"
  /\ conns[2].lst = "proxy"
  /\ conns[1].sends = 1
  /\ ~conns[1].open
  /\ conns[2].open
  /\ OpenConnsOf("proxy") = {2}

\* Any two outbound connections of the repeater go to the same host and port,
\* and those that have sent have sent the same request.
RepeatsAgree ==
  \A i, j \in RepeaterOuts :
    /\ outs[i].host = outs[j].host
    /\ outs[i].port = outs[j].port
    /\ (outs[i].sent # <<>> /\ outs[j].sent # <<>>) => outs[i].sent = outs[j].sent

\* C14: no step of the repeater changes the store, whether it succeeds or
\* fails; only the proxy's save step does.  Repeats with no proxy request in
\* between forward the same host, port and request.
C14_RepeaterLeavesStore ==
  [][/\ pc \in RepeaterSteps => file' = file
     /\ file' # file => (pc = "p_save" /\ ProxySave)
     /\ RepeatsAgree']_vars

\* Two repeater connections in a row have been forwarded, and a third has
\* failed, with the store as the first of them found it.
C14_Witness ==
  /\ file.exists
  /\ load_pickle(file).exc = "none"
  /\ \E i, j \in RepeaterOuts :
       /\ i < j
       /\ outs[i].conn < outs[j].conn
       /\ outs[i].sent = load_pickle(file).rec.request
       /\ outs[j].sent = load_pickle(file).rec.request
       /\ outs[i].sent # <<>>
       /\ conns[outs[i].conn].sends = 1
  /\ failure.stage \in {"connect", "send", "receive", "respond"}
  /\ conns[failure.conn].lst = "repeater"

ProxyForwardSteps == {"p_connect", "p_send", "p_recv_response", "p_respond"}
ForwardFailures == {"connect", "send", "receive"}

\* Every outbound connection of the repeater goes to rec's host and port and
\* has sent rec's request, if it has sent.
RepeatsSend(rec) ==
  \A i \in RepeaterOuts :
    /\ outs[i].host = rec.host
    /\ outs[i].port = rec.port
    /\ outs[i].sent \in {<<>>, rec.request}

\* C15: on the proxy path the capture is in the store before the outbound
\* connection is attempted: throughout the forward, and after a forward that
\* failed at connect, send or receive, the store holds the capture of the
\* connection's request, and a read of the store returns it; what a repeat
\* sends is what a read of the store returns.
C15_PersistBeforeForward ==
  /\ pc \in ProxyForwardSteps =>
       /\ pickle_request = parse_request(request).rec
       /\ file = FileOf(dumps(pickle_request))
  /\ \A i \in 1..Len(outs) :
       conns[outs[i].conn].lst = "proxy" =>
         \E k \in 1..Len(saved) :
           /\ saved[k].host = outs[i].host
           /\ saved[k].port = outs[i].port
           /\ outs[i].sent \in {<<>>, saved[k].request}
  /\ (pc = "crashed" /\ failure.stage \in ForwardFailures
        /\ conns[failure.conn].lst = "proxy") =>
       /\ file = FileOf(dumps(parse_request(request).rec))
       /\ load_pickle(file) = [exc |-> "none", rec |-> parse_request(request).rec]
  /\ RepeaterOuts # {} => RepeatsSend(load_pickle(file).rec)

\* The forward of the proxy's second request has failed at receive, after
\* the request was sent: the store holds the second request's capture, not
\* the first's.
C15_Witness ==
  /\ pc = "crashed"
  /\ failure.stage = "receive"
  /\ failure.conn = 2
  /\ conns[2].lst = "proxy"
  /\ Len(saved) = 2
  /\ saved[1] # saved[2]
  /\ Last(outs).sent = saved[2].request
  /\ load_pickle(file).rec = saved[2]

OutsOf(c) == { i \in 1..Len(outs) : outs[i].conn = c }

\* The requests the listener of connection c can have forwarded: the proxy
\* one it persisted, the repeater the one the store holds.
ForwardedFor(c) ==
  IF conns[c].lst = "proxy" THEN { saved[k].request : k \in 1..Len(saved) }
  ELSE { load_pickle(file).rec.request }

\* C16: for each accepted connection the listener creates at most one
\* outbound socket, sends the full request on it at most once and reads from
\* it at most once, and what it sends to the client is what that read
\* returned; a connection that failed at parse, persist or load has no
\* outbound socket.
C16_NoRetryNoReuse ==
  /\ \A c \in 1..Len(conns) :
       /\ Cardinality(OutsOf(c)) <= 1
       /\ conns[c].sends <= 1
       /\ conns[c].sends = 1 =>
            \E i \in OutsOf(c) :
              /\ outs[i].sends = 1
              /\ outs[i].reads = 1
              /\ conns[c].sent = outs[i].recvd
       /\ conns[c].sends = 0 => conns[c].sent = <<>>
       /\ \A i \in OutsOf(c) :
            /\ outs[i].sends <= 1
            /\ outs[i].reads <= 1
            /\ outs[i].sent \in {<<>>} \cup ForwardedFor(c)
            /\ outs[i].reads = 1 => outs[i].sends = 1
  /\ failure.stage \in {"parse", "persist", "load"} => OutsOf(failure.conn) = {}
  /\ loops["proxy"] = "returned" =>
       \A c \in ConnsOf("proxy") : (\A d \in ConnsOf("proxy") : d <= c) => OutsOf(c) = {}

\* A connection has been serviced to the end: one outbound socket, one send
\* of the request, one read, and the bytes of that read sent to the client;
\* and a later connection that failed to persist has no outbound socket.
C16_Witness ==
  /\ \E c \in 1..Len(conns) :
       /\ conns[c].sends = 1
       /\ conns[c].sent # <<>>
       /\ Cardinality(OutsOf(c)) = 1
       /\ \A i \in OutsOf(c) :
            /\ outs[i].sends = 1
            /\ outs[i].sent # <<>>
            /\ outs[i].reads = 1
            /\ outs[i].recvd = conns[c].sent
  /\ failure.stage = "persist"
  /\ OutsOf(failure.conn) = {}

\* C17: the first line of every translated request is the method, " / " and
\* the version of the request line, its first and third tokens, followed by
\* CRLF: the filter of Proxy-Connection lines never removes it.
C17_RequestLineRewritten ==
  pc = "p_save" =>
    /\ splitlines(pickle_request.request) # <<>>
    /\ splitlines(pickle_request.request)[1] = proxy_first_line(split(FirstLine(request)))

\* A request translation does not accept: its request line does not split
\* into exactly three tokens, or it has no second line.
Malformed(req) == Len(split(FirstLine(req))) # 3 \/ Len(splitlines(req)) < 2

\* C18: translation succeeds only for a request whose request line splits
\* into exactly three tokens and which has a second line; a request line of
\* more or fewer tokens, a single line and the empty request fail it, and the
\* step persists nothing, opens no outbound connection and ends the loop.
C18_ExactlyThreeTokens ==
  [][ProxyParse =>
       /\ pc' = "p_save" => ~Malformed(request)
       /\ Malformed(request) =>
            /\ pc' = "crashed"
            /\ failure'.stage = "parse"
            /\ failure'.exc \in {"IndexError", "ValueError"}
            /\ failure'.conn = Len(conns)
            /\ pickle_request' = pickle_request
            /\ saved' = saved
            /\ file' = file
            /\ Len(outs') = Len(outs)
            /\ Last(conns').sent = <<>>]_vars

\* A request line of four tokens has failed translation on the connection
\* that followed a persisted capture, which the store still holds.
C18_Witness ==
  /\ pc = "crashed"
  /\ failure = [stage |-> "parse", exc |-> "ValueError", conn |-> Len(conns)]
  /\ Len(split(FirstLine(request))) = 4
  /\ Len(splitlines(request)) >= 2
  /\ saved # <<>>
  /\ file = FileOf(dumps(Last(saved)))
  /\ OutsOf(Len(conns)) = {}

====
